---- MODULE Spec2Model ----
(***************************************************************************)
(* Model of the mini-me-assistant router (core/assistant.py) and of the    *)
(* Gmail-backed mail sub-agent (core/email_agent.py).                      *)
(*                                                                         *)
(* Python values are represented as follows.  A str whose characters       *)
(* matter (the user text, the classifier's completion) is a sequence of    *)
(* one-character strings.  Any other str is a TLA+ string.  None is the    *)
(* string "<None>"; an opaque object is a string in angle brackets.        *)
(* A dict built by the code is a record; a dict parsed from JSON is a      *)
(* function from its keys to values (possibly with an empty domain).       *)
(***************************************************************************)
EXTENDS Integers, Sequences, FiniteSets, TLC

VARIABLES
    pc,               \* position of the process inside handle_message
    turn,             \* locals of the running handle_message call
    result,           \* the dict handle_message returns ("<None>" before)
    EMAIL_AGENT,      \* assistant._EMAIL_AGENT: "<None>" or "<EmailAgent>"
    EMAIL_AGENT_ERROR,\* assistant._EMAIL_AGENT_ERROR: "<None>" or "<exc>"
    sender_address,   \* EmailAgent.sender_address, read once in __init__
    service,          \* EmailAgent._service: "<None>" or "<service>"
    pending_draft,    \* EmailAgent.pending_draft: NoDraft or a draft record
    uuids,            \* number of uuid4() values handed out so far
    outbox,           \* provider side: payloads users().messages().send took
    failed_sends,     \* provider side: ids of the drafts a send call failed for
    draft_agent,      \* agent id of the turn that stored the pending draft
    memory_managers,  \* memory._memory_managers: the cached agent ids
    cls_in,           \* input of the stand-alone classifier run
    cls_out,          \* its result ("<None>" before the run)
    mem_in,           \* the manager and message of a build_memory_context run
    mem_out,          \* what that run returned (NotCalled before the run)
    bot               \* the bot front-end: updates, handlers, workers, replies

vars == <<pc, turn, result, EMAIL_AGENT, EMAIL_AGENT_ERROR, sender_address,
          service, pending_draft, uuids, outbox, failed_sends, draft_agent,
          memory_managers,
          cls_in, cls_out, mem_in, mem_out, bot>>

None == "<None>"

------------------------------------------------------------------------------
(* Bounds of the model *)

\* uuid4() values (drafts created) in one run
MaxDrafts == 2
\* pieces concatenated into a completion given to the stand-alone classifier
MaxParts == 3
\* stored facts in one build_memory_context run
MaxFacts == 4
\* updates the bot front-end receives in one run
MaxUpdates == 3

------------------------------------------------------------------------------
(* Character-level strings *)

UpperToLower ==
    [A |-> "a", B |-> "b", C |-> "c", D |-> "d", E |-> "e", F |-> "f",
     G |-> "g", H |-> "h", I |-> "i", J |-> "j", K |-> "k", L |-> "l",
     M |-> "m", N |-> "n", O |-> "o", P |-> "p", Q |-> "q", R |-> "r",
     S |-> "s", T |-> "t", U |-> "u", V |-> "v", W |-> "w", X |-> "x",
     Y |-> "y", Z |-> "z"]

\* the characters str.strip() and str.split() treat as whitespace
Whitespace == {" ", "\n", "\t", "\r"}

LowerChar(c) == IF c \in DOMAIN UpperToLower THEN UpperToLower[c] ELSE c

\* str.lower()
Lower(s) == [i \in 1..Len(s) |-> LowerChar(s[i])]

\* str.strip()
Strip(s) ==
    LET keep == {i \in 1..Len(s) : s[i] \notin Whitespace}
    IN  IF keep = {} THEN <<>>
        ELSE LET lo == CHOOSE i \in keep : \A j \in keep : i <= j
                 hi == CHOOSE i \in keep : \A j \in keep : j <= i
             IN  SubSeq(s, lo, hi)

RECURSIVE Split(_)
\* str.split(): the maximal runs of non-whitespace characters, in order
Split(s) ==
    IF s = <<>> THEN <<>>
    ELSE IF s[1] \in Whitespace THEN Split(Tail(s))
    ELSE LET stops == {i \in 1..Len(s) : s[i] \in Whitespace}
             n == IF stops = {} THEN Len(s)
                  ELSE (CHOOSE i \in stops : \A j \in stops : i <= j) - 1
         IN  <<SubSeq(s, 1, n)>> \o Split(SubSeq(s, n + 1, Len(s)))

\* `kw in text` for two str values
Contains(text, kw) ==
    \E i \in 0..(Len(text) - Len(kw)) : SubSeq(text, i + 1, i + Len(kw)) = kw

------------------------------------------------------------------------------
(* Intents and mail keywords *)

\* the character sequence of each intent label
IntentChars ==
    [task        |-> <<"t","a","s","k">>,
     note        |-> <<"n","o","t","e">>,
     draft_reply |-> <<"d","r","a","f","t","_","r","e","p","l","y">>,
     question    |-> <<"q","u","e","s","t","i","o","n">>,
     other       |-> <<"o","t","h","e","r">>,
     email       |-> <<"e","m","a","i","l">>]

allowed == DOMAIN IntentChars

_EMAIL_KEYWORDS ==
    { <<"e","m","a","i","l">>, <<"e","m","a","i","l","s">>,
      <<"i","n","b","o","x">>, <<"m","a","i","l","b","o","x">>,
      <<"g","m","a","i","l">>, <<"d","r","a","f","t">>,
      <<"d","r","a","f","t","s">>, <<"r","e","p","l","y">>,
      <<"r","e","p","l","i","e","s">>, <<"u","n","r","e","a","d">> }

\* a completion call either raises or returns text
\* (errors: what the requests that failed in the call raised, in order)
Raised == [ok |-> FALSE, errors |-> <<"error">>]
Returned(text) == [ok |-> TRUE, out |-> text, errors |-> <<>>]

\* the requests a completion call sent to the completion service
Requests(completion) ==
    Len(completion.errors) + (IF completion.ok THEN 1 ELSE 0)

\* the mutation of _classify_intent that forgets .lower()
ClassifyText_NoLower(out) ==
    LET raw == Strip(out)
        tok == IF raw # <<>> THEN Split(raw)[1] ELSE IntentChars["other"]
    IN  IF \E l \in allowed : IntentChars[l] = tok
        THEN CHOOSE l \in allowed : IntentChars[l] = tok
        ELSE "other"

\* _classify_intent on the text the completion call returned
ClassifyText(out) ==
    LET raw == Lower(Strip(out))
        tok == IF raw # <<>> THEN Split(raw)[1] ELSE IntentChars["other"]
    IN  IF \E l \in allowed : IntentChars[l] = tok
        THEN CHOOSE l \in allowed : IntentChars[l] = tok
        ELSE "other"

------------------------------------------------------------------------------
(* Inputs of a turn *)

\* user texts: "hi", "e mail", "my INBOX", "Redrafted"
UserTexts ==
    { <<"h","i">>,
      <<"e"," ","m","a","i","l">>,
      <<"m","y"," ","I","N","B","O","X">>,
      <<"R","e","d","r","a","f","t","e","d">> }

\* the bot front-end passes this agent id in every call
AgentIds == {"main_assistant"}

\* what get_memory_manager does in a turn when no manager is cached: the
\* constructor raises, or a manager is built and gives a context
MemoryOutcomes == {"ctor_raises", "context"}

\* texts the classifier completion returns: "task", "Note", " email\n",
\* "draft_reply", "QUESTION now", "banana", ""
ClassifierTexts ==
    { <<"t","a","s","k">>,
      <<"N","o","t","e">>,
      <<" ","e","m","a","i","l","\n">>,
      <<"d","r","a","f","t","_","r","e","p","l","y">>,
      <<"Q","U","E","S","T","I","O","N"," ","n","o","w">>,
      <<"b","a","n","a","n","a">>,
      <<>> }

Completions(texts) == {Raised} \cup {Returned(t) : t \in texts}

\* pieces a completion of the stand-alone classifier run is made of
Pieces ==
    { <<" ">>, <<"\n">>, <<".">>, <<"s">>,
      <<"T","a","s","k">>, <<"n","o","t","e">>, <<"e","m","a","i","l">>,
      <<"O","T","H","E","R">>, <<"q","u","e","s","t","i","o","n">>,
      <<"d","r","a","f","t","_","r","e","p","l","y">> }

RECURSIVE Concats(_)
\* the concatenations of at most n pieces
Concats(n) ==
    IF n = 0 THEN {<<>>}
    ELSE LET shorter == Concats(n - 1)
         IN  shorter \cup {p \o s : p \in Pieces, s \in shorter}

ClassifierInputs == Concats(MaxParts)

------------------------------------------------------------------------------
(* State *)

NoDraft == [id |-> 0]

\* the bot front-end before the first update
NoUpdates ==
    [received |-> 0, update_queue |-> <<>>, handlers |-> {},
     workers |-> {}, finished |-> {}, sent |-> <<>>]

\* build_memory_context has not been run on its own
NotCalled == [called |-> FALSE]
NoMemoryRun ==
    [user_message |-> <<>>, entity_id |-> None, engine |-> None,
     query |-> "rows", stored |-> <<>>]

NoTurn ==
    [user_text |-> <<>>, agent_id |-> None, memory_manager |-> None,
     memory_context |-> None, intent |-> None, overridden |-> FALSE,
     handler |-> None, action |-> None, confirmation |-> None,
     exc |-> None, calls |-> <<>>, pending_before |-> NoDraft,
     persisted |-> None, completion |-> Raised, llm_calls |-> <<>>]

Init ==
    /\ pc = "idle"
    /\ turn = NoTurn
    /\ result = None
    /\ EMAIL_AGENT = None
    /\ EMAIL_AGENT_ERROR = None
    /\ sender_address = None
    /\ service = None
    /\ pending_draft = NoDraft
    /\ uuids = 0
    /\ outbox = <<>>
    /\ failed_sends = {}
    /\ draft_agent = None
    /\ memory_managers = {}
    /\ cls_in = <<>>
    /\ cls_out = None
    /\ mem_in = NoMemoryRun
    /\ mem_out = NotCalled
    /\ bot = NoUpdates

mailVars == <<EMAIL_AGENT, EMAIL_AGENT_ERROR, sender_address, service,
              pending_draft, uuids, outbox, failed_sends, draft_agent>>
clsVars == <<cls_in, cls_out>>
memVars == <<mem_in, mem_out>>

------------------------------------------------------------------------------
(* handle_message, step by step *)

\* handle_message is entered: get_memory_manager and build_memory_context
BeginTurn(user_text, agent_id, mem) ==
    /\ pc \in {"idle", "returned", "raised"}
    /\ LET cached == agent_id \in memory_managers
           failed == ~cached /\ mem = "ctor_raises"
       IN  /\ memory_managers' =
                  IF failed THEN memory_managers
                  ELSE memory_managers \cup {agent_id}
           /\ turn' = [NoTurn EXCEPT
                  !.user_text = user_text,
                  !.agent_id = agent_id,
                  !.memory_manager =
                      IF failed THEN None ELSE "<MemoryManager>",
                  !.memory_context =
                      IF failed THEN None ELSE "<context>"]
    /\ result' = None
    /\ pc' = "classify"
    /\ UNCHANGED <<mailVars, clsVars, memVars, bot>>

\* the mutation of the keyword override that forgets user_text.lower()
HasEmailKeyword_NoLower(user_text) ==
    \E keyword \in _EMAIL_KEYWORDS : Contains(user_text, keyword)

\* any(keyword in user_text.lower() for keyword in _EMAIL_KEYWORDS)
HasEmailKeyword(user_text) ==
    LET normalized == Lower(user_text)
    IN  \E keyword \in _EMAIL_KEYWORDS : Contains(normalized, keyword)

\* the completion call the router makes in _classify_intent,
\* _parse_email_command, _handle_action and _handle_conversation: the
\* manager's chat_completion if there is a manager, else the default one;
\* a Context message is in the prompt if memory_context is not empty
ChatCall(memory_manager, memory_context, completion) ==
    [fn |-> IF memory_manager # None
            THEN "memory_manager.chat_completion"
            ELSE "default_chat_completion",
     context |-> memory_context \notin {None, ""},
     requests |-> Requests(completion),
     errors |-> completion.errors]

\* the turn, with the completion call the router has just made
Called(t, completion) ==
    [t EXCEPT !.llm_calls =
         Append(@, ChatCall(t.memory_manager, t.memory_context,
                            completion))]

\* _classify_intent and the keyword override
Classify(completion) ==
    /\ pc = "classify"
    /\ IF ~completion.ok
       THEN /\ pc' = "raised"
            /\ turn' = Called(turn, completion)
       ELSE LET classified == ClassifyText(completion.out)
                intent == IF classified # "email"
                             /\ HasEmailKeyword(turn.user_text)
                          THEN "email" ELSE classified
            IN  /\ turn' = [Called(turn, completion) EXCEPT
                                !.intent = intent,
                                !.overridden = intent # classified]
                /\ pc' = "handle"
    /\ UNCHANGED <<result, mailVars, memory_managers, clsVars, memVars, bot>>

------------------------------------------------------------------------------
(* Completions that are meant to be JSON *)

(* A completion is a sequence of lines.  A line is a code fence (it starts  *)
(* with three backticks), a JSON object, a JSON document that is not an    *)
(* object, a blank line, or other text.                                    *)
Fence == [k |-> "fence"]
Blank == [k |-> "blank"]
Text == [k |-> "text"]
JsonOther == [k |-> "json_other"]
Json(d) == [k |-> "json", val |-> d]

\* str.strip() on lines: blank lines at both ends go
StripLines(ls) ==
    LET keep == {i \in 1..Len(ls) : ls[i] # Blank}
    IN  IF keep = {} THEN <<>>
        ELSE LET lo == CHOOSE i \in keep : \A j \in keep : i <= j
                 hi == CHOOSE i \in keep : \A j \in keep : j <= i
             IN  SubSeq(ls, lo, hi)

\* _strip_code_fences
_strip_code_fences(text) ==
    LET t == StripLines(text)
    IN  IF t # <<>> /\ t[1] = Fence
        THEN LET lines1 == Tail(t)
                 lines2 == IF lines1 # <<>> /\ lines1[Len(lines1)] = Fence
                           THEN SubSeq(lines1, 1, Len(lines1) - 1)
                           ELSE lines1
             IN  StripLines(lines2)
        ELSE t

\* json.loads: the parsed document, or JSONDecodeError
JSONDecodeError == [k |-> "JSONDecodeError"]
json_loads(raw) ==
    IF Len(raw) = 1 /\ raw[1].k \in {"json", "json_other"}
    THEN raw[1]
    ELSE JSONDecodeError

\* dict.get(key, default)
Get(d, key, default) == IF key \in DOMAIN d THEN d[key] ELSE default

\* values the code tests for truth: None, "", 0, {} are false
Falsy == {None, "", "<0>", "<{}>"}
\* str values (the others stand for numbers and containers)
NonStr == {None, "<0>", "<5>", "<{}>", "<task>", "<note>"}
\* str.strip() of a short str value
StripStr(v) == IF v = "  " THEN "" ELSE v

------------------------------------------------------------------------------
(* core/email_agent.py *)

\* what the mail provider and the completion service do during one email
\* action: the first call that fails, if any
Faults ==
    {"none", "svc_config", "svc_auth", "list_http", "list_other",
     "list_empty", "get_http", "get_other", "llm_raises",
     "send_http", "send_other"}

\* result of an EmailAgent method: the exception it raises (or None), the
\* value it returns, the agent state it leaves (the slot and the uuid count
\* as before unless stated) and the provider calls it issued, in order
Outcome(exc, ret, svc, calls) ==
    [exc |-> exc, ret |-> ret, service |-> svc, calls |-> calls,
     pending_draft |-> pending_draft, uuids |-> uuids, outbox |-> outbox]

\* EmailAgent._get_service / _build_service
_get_service(fault) ==
    IF service # None THEN Outcome(None, service, service, <<>>)
    ELSE IF fault = "svc_config"
         THEN Outcome("EmailAgentError", "Gmail credentials not found.",
                      None, <<>>)
    ELSE IF fault = "svc_auth"
         THEN Outcome("Exception", "auth failed", None, <<"auth">>)
    ELSE Outcome(None, "<service>", "<service>", <<"auth">>)

\* EmailAgent.summarize_inbox
summarize_inbox(fault) ==
    LET s == _get_service(fault)
        c1 == s.calls \o <<"list">>
        c2 == c1 \o <<"get">>
    IN  IF s.exc # None THEN s
        ELSE IF fault = "list_http"
             THEN Outcome("EmailAgentError", "Gmail error: list",
                          s.service, c1)
        ELSE IF fault = "list_other"
             THEN Outcome("Exception", "list failed", s.service, c1)
        ELSE IF fault = "list_empty"
             THEN Outcome(None, "Your inbox is clear right now.",
                          s.service, c1)
        ELSE IF fault = "get_http"
             THEN Outcome("EmailAgentError", "Gmail error: get",
                          s.service, c2)
        ELSE IF fault = "get_other"
             THEN Outcome("Exception", "get failed", s.service, c2)
        ELSE IF fault = "llm_raises"
             THEN Outcome("Exception", "completion failed", s.service, c2)
        ELSE Outcome(None, "<inbox summary>", s.service, c2)

\* EmailAgent._find_thread
_find_thread(query, fault) ==
    LET s == _get_service(fault)
        c1 == s.calls \o <<"list">>
        c2 == c1 \o <<"get">>
    IN  IF s.exc # None THEN s
        ELSE IF fault = "list_http"
             THEN Outcome("EmailAgentError",
                          "Gmail error while searching: list", s.service, c1)
        ELSE IF fault = "list_other"
             THEN Outcome("Exception", "list failed", s.service, c1)
        ELSE IF fault = "list_empty"
             THEN Outcome(None, None, s.service, c1)
        ELSE IF fault = "get_http"
             THEN Outcome("EmailAgentError",
                          "Gmail error while searching: get", s.service, c2)
        ELSE IF fault = "get_other"
             THEN Outcome("Exception", "get failed", s.service, c2)
        ELSE Outcome(None, "<thread>", s.service, c2)

\* the mutation of summarize_thread that resets the slot when the search
\* does not succeed
summarize_thread_Resets(query, fault) ==
    LET t == _find_thread(query, fault)
    IN  IF t.exc # None THEN [t EXCEPT !.pending_draft = NoDraft]
        ELSE IF t.ret = None
             THEN [Outcome("EmailAgentError",
                    "I couldn't find a matching conversation in your inbox.",
                    t.service, t.calls) EXCEPT !.pending_draft = NoDraft]
        ELSE IF fault = "llm_raises"
             THEN Outcome("Exception", "completion failed",
                          t.service, t.calls)
        ELSE Outcome(None, "<thread summary>", t.service, t.calls)

\* EmailAgent.summarize_thread
summarize_thread(query, fault) ==
    LET t == _find_thread(query, fault)
    IN  IF t.exc # None THEN t
        ELSE IF t.ret = None
             THEN Outcome("EmailAgentError",
                    "I couldn't find a matching conversation in your inbox.",
                    t.service, t.calls)
        ELSE IF fault = "llm_raises"
             THEN Outcome("Exception", "completion failed",
                          t.service, t.calls)
        ELSE Outcome(None, "<thread summary>", t.service, t.calls)

\* the draft EmailAgent.draft_reply stores: uuid4() is the next unused id,
\* and the n-th draft's encoded message and reply text are named after n
NewDraft ==
    [id |-> uuids + 1, raw |-> uuids + 1, preview |-> uuids + 1,
     subject |-> "<subject>"]

\* the mutation of draft_reply that keeps an earlier pending draft
draft_reply_KeepFirst(query, instructions, fault) ==
    LET t == _find_thread(query, fault)
    IN  IF t.exc # None THEN t
        ELSE IF t.ret = None
             THEN Outcome("EmailAgentError",
              "I couldn't locate that thread. Try a different keyword or sender.",
                    t.service, t.calls)
        ELSE IF fault = "llm_raises"
             THEN Outcome("Exception", "completion failed",
                          t.service, t.calls)
        ELSE IF sender_address = None
             THEN Outcome("EmailAgentError",
                    "EMAIL_SENDER_ADDRESS is not set in your environment.",
                    t.service, t.calls)
        ELSE [Outcome(None, NewDraft.preview, t.service, t.calls)
                EXCEPT !.pending_draft =
                           IF pending_draft = NoDraft THEN NewDraft
                           ELSE pending_draft,
                       !.uuids = uuids + 1]

\* the mutation of draft_reply that empties the slot before it starts
draft_reply_ClearsFirst(query, instructions, fault) ==
    LET t == _find_thread(query, fault)
    IN  IF t.exc # None THEN [t EXCEPT !.pending_draft = NoDraft]
        ELSE IF t.ret = None
             THEN [Outcome("EmailAgentError",
              "I couldn't locate that thread. Try a different keyword or sender.",
                    t.service, t.calls) EXCEPT !.pending_draft = NoDraft]
        ELSE IF fault = "llm_raises"
             THEN [Outcome("Exception", "completion failed",
                           t.service, t.calls)
                     EXCEPT !.pending_draft = NoDraft]
        ELSE IF sender_address = None
             THEN [Outcome("EmailAgentError",
                    "EMAIL_SENDER_ADDRESS is not set in your environment.",
                    t.service, t.calls) EXCEPT !.pending_draft = NoDraft]
        ELSE [Outcome(None, NewDraft.preview, t.service, t.calls)
                EXCEPT !.pending_draft = NewDraft,
                       !.uuids = uuids + 1]

\* EmailAgent.draft_reply; the value returned is the preview of the
\* dict it builds (its message is a constant)
draft_reply(query, instructions, fault) ==
    LET t == _find_thread(query, fault)
    IN  IF t.exc # None THEN t
        ELSE IF t.ret = None
             THEN Outcome("EmailAgentError",
              "I couldn't locate that thread. Try a different keyword or sender.",
                    t.service, t.calls)
        ELSE IF fault = "llm_raises"
             THEN Outcome("Exception", "completion failed",
                          t.service, t.calls)
        ELSE IF sender_address = None
             THEN Outcome("EmailAgentError",
                    "EMAIL_SENDER_ADDRESS is not set in your environment.",
                    t.service, t.calls)
        ELSE [Outcome(None, NewDraft.preview, t.service, t.calls)
                EXCEPT !.pending_draft = NewDraft,
                       !.uuids = uuids + 1]

\* the mutation of send_pending_draft that clears the slot before the
\* provider has accepted the message
send_pending_draft_ClearFirst(fault) ==
    IF pending_draft = NoDraft
    THEN Outcome("EmailAgentError",
                 "There's no draft waiting for approval.", service, <<>>)
    ELSE LET s == _get_service(fault)
             c1 == s.calls \o <<"send">>
         IN  IF s.exc # None THEN [s EXCEPT !.pending_draft = NoDraft]
             ELSE IF fault = "send_http"
                  THEN [Outcome("EmailAgentError",
                                "Failed to send the email: send",
                                s.service, c1)
                          EXCEPT !.pending_draft = NoDraft]
             ELSE IF fault = "send_other"
                  THEN [Outcome("Exception", "send failed", s.service, c1)
                          EXCEPT !.pending_draft = NoDraft]
             ELSE [Outcome(None, "Done - I sent your reply about '<subject>'.",
                           s.service, c1)
                     EXCEPT !.pending_draft = NoDraft,
                            !.outbox = Append(outbox,
                                [id |-> pending_draft.id,
                                 raw |-> pending_draft.raw])]

\* the mutation of send_pending_draft that forgets to clear the slot
send_pending_draft_NoClear(fault) ==
    IF pending_draft = NoDraft
    THEN Outcome("EmailAgentError",
                 "There's no draft waiting for approval.", service, <<>>)
    ELSE LET s == _get_service(fault)
             c1 == s.calls \o <<"send">>
         IN  IF s.exc # None THEN s
             ELSE IF fault = "send_http"
                  THEN Outcome("EmailAgentError",
                               "Failed to send the email: send",
                               s.service, c1)
             ELSE IF fault = "send_other"
                  THEN Outcome("Exception", "send failed", s.service, c1)
             ELSE [Outcome(None, "Done - I sent your reply about '<subject>'.",
                           s.service, c1)
                     EXCEPT !.outbox = Append(outbox,
                                [id |-> pending_draft.id,
                                 raw |-> pending_draft.raw])]

\* EmailAgent.send_pending_draft; the outbox entry carries the raw payload
\* the provider took and, for reference, the id of the draft it came from
send_pending_draft(fault) ==
    IF pending_draft = NoDraft
    THEN Outcome("EmailAgentError",
                 "There's no draft waiting for approval.", service, <<>>)
    ELSE LET s == _get_service(fault)
             c1 == s.calls \o <<"send">>
         IN  IF s.exc # None THEN s
             ELSE IF fault = "send_http"
                  THEN Outcome("EmailAgentError",
                               "Failed to send the email: send",
                               s.service, c1)
             ELSE IF fault = "send_other"
                  THEN Outcome("Exception", "send failed", s.service, c1)
             ELSE [Outcome(None, "Done - I sent your reply about '<subject>'.",
                           s.service, c1)
                     EXCEPT !.pending_draft = NoDraft,
                            !.outbox = Append(outbox,
                                [id |-> pending_draft.id,
                                 raw |-> pending_draft.raw])]

\* the mutation of has_pending_draft that always reports a draft
has_pending_draft_Always == TRUE

\* EmailAgent.has_pending_draft
has_pending_draft == pending_draft # NoDraft

------------------------------------------------------------------------------
(* core/assistant.py: the email handler *)

\* commands the routing completion may hold
EmailCommands ==
    { [action |-> "summarize_inbox", query |-> None,
       instructions |-> None, confirmation |-> None],
      [action |-> "summarize_thread", query |-> "bob",
       instructions |-> None, confirmation |-> None],
      [action |-> "summarize_thread", query |-> "  "],
      [action |-> "draft_reply", query |-> "bob",
       instructions |-> "be brief", confirmation |-> "needs_confirmation"],
      [action |-> "draft_reply", query |-> None, instructions |-> None],
      [action |-> "draft_reply", query |-> "<5>"],
      [action |-> "send_draft", confirmation |-> "send_now"],
      [action |-> "send_draft", confirmation |-> "needs_confirmation"],
      [action |-> "send_draft", confirmation |-> None],
      [action |-> "send_draft"],
      [action |-> "send_draft", confirmation |-> "yes"],
      [action |-> "status"],
      [action |-> "archive"],
      [a \in {} |-> None] }

\* texts the routing completion returns
RoutingTexts ==
    {<<Json(c)>> : c \in EmailCommands}
    \cup { <<Fence, Json([action |-> "send_draft",
                          confirmation |-> "send_now"]), Fence>>,
           <<Text>>, <<JsonOther>>, <<>> }

DefaultCommand ==
    [action |-> "summarize_inbox", query |-> None,
     instructions |-> None, confirmation |-> None]

\* the mutation of _parse_email_command whose fallback is a confirmed send
_parse_email_command_SendOnError(text) ==
    LET raw == _strip_code_fences(text)
        doc == json_loads(raw)
    IN  IF doc = JSONDecodeError
        THEN Json([action |-> "send_draft", query |-> None,
                   instructions |-> None, confirmation |-> "send_now"])
        ELSE doc

\* _parse_email_command on the text the completion call returned
_parse_email_command(text) ==
    LET raw == _strip_code_fences(text)
        doc == json_loads(raw)
    IN  IF doc = JSONDecodeError THEN Json(DefaultCommand) ELSE doc

\* (command.get(key) or "").strip() raises on a true value that is no str
ArgRaises(command, key) ==
    LET v == Get(command, key, None)
    IN  v \notin Falsy /\ v \in NonStr

Arg(command, key) ==
    LET v == Get(command, key, None)
    IN  IF v \in Falsy THEN "" ELSE StripStr(v)

\* the reply of a successful draft_reply: the fixed message, then the preview
DraftReplyText(preview) ==
    [message |-> "Here's a draft. Let me know if you'd like me to send it.",
     preview |-> preview]

\* the mutation of the send_draft branch that ignores the confirmation
Dispatch_NoConfirm(command, fault) ==
    LET action == Get(command, "action", "summarize_inbox")
        query == Arg(command, "query")
        instructions == Arg(command, "instructions")
    IN  IF action = "summarize_thread"
        THEN IF query = ""
             THEN Outcome("EmailAgentError",
                    "Please specify which conversation to summarize.",
                    service, <<>>)
             ELSE summarize_thread(query, fault)
        ELSE IF action = "draft_reply"
        THEN IF query = ""
             THEN Outcome("EmailAgentError",
                    "I need a keyword or sender to find that conversation.",
                    service, <<>>)
             ELSE LET r == draft_reply(query,
                               IF instructions = ""
                               THEN "Keep it concise and helpful."
                               ELSE instructions, fault)
                  IN  IF r.exc = None
                      THEN [r EXCEPT !.ret = DraftReplyText(r.ret)]
                      ELSE r
        ELSE IF action = "send_draft"
        THEN IF ~has_pending_draft
             THEN Outcome("EmailAgentError",
                          "There's no draft waiting to send.", service, <<>>)
             ELSE send_pending_draft(fault)
        ELSE IF action = "status"
        THEN IF has_pending_draft
             THEN Outcome(None,
                    "There's a draft waiting for approval. Tell me when to send it.",
                    service, <<>>)
             ELSE Outcome(None, "No drafts are pending approval right now.",
                          service, <<>>)
        ELSE summarize_inbox(fault)

\* the body of the try block of _handle_email: the action chosen by the
\* command, run against the agent
Dispatch(command, fault) ==
    LET action == Get(command, "action", "summarize_inbox")
        query == Arg(command, "query")
        instructions == Arg(command, "instructions")
        confirmation == Get(command, "confirmation", None)
    IN  IF action = "summarize_thread"
        THEN IF query = ""
             THEN Outcome("EmailAgentError",
                    "Please specify which conversation to summarize.",
                    service, <<>>)
             ELSE summarize_thread(query, fault)
        ELSE IF action = "draft_reply"
        THEN IF query = ""
             THEN Outcome("EmailAgentError",
                    "I need a keyword or sender to find that conversation.",
                    service, <<>>)
             ELSE LET r == draft_reply(query,
                               IF instructions = ""
                               THEN "Keep it concise and helpful."
                               ELSE instructions, fault)
                  IN  IF r.exc = None
                      THEN [r EXCEPT !.ret = DraftReplyText(r.ret)]
                      ELSE r
        ELSE IF action = "send_draft"
        THEN IF ~has_pending_draft
             THEN Outcome("EmailAgentError",
                          "There's no draft waiting to send.", service, <<>>)
             ELSE IF confirmation # "send_now"
             THEN Outcome(None,
                    "I have the draft ready. Say 'yes, send it' when you're sure.",
                    service, <<>>)
             ELSE send_pending_draft(fault)
        ELSE IF action = "status"
        THEN IF has_pending_draft
             THEN Outcome(None,
                    "There's a draft waiting for approval. Tell me when to send it.",
                    service, <<>>)
             ELSE Outcome(None, "No drafts are pending approval right now.",
                          service, <<>>)
        ELSE summarize_inbox(fault)

\* f"Sorry, the email agent ran into an issue: {exc}"
Apology ==
    [e \in {"auth failed", "list failed", "get failed", "send failed",
            "completion failed"} |->
        CASE e = "auth failed" ->
               "Sorry, the email agent ran into an issue: auth failed"
          [] e = "list failed" ->
               "Sorry, the email agent ran into an issue: list failed"
          [] e = "get failed" ->
               "Sorry, the email agent ran into an issue: get failed"
          [] e = "send failed" ->
               "Sorry, the email agent ran into an issue: send failed"
          [] e = "completion failed" ->
               "Sorry, the email agent ran into an issue: completion failed"]

\* the mutation of the except clauses that answers every exception with
\* its own text
ReplyText_NoApology(r) == r.ret

\* the except clauses of _handle_email: the reply text
ReplyText(r) ==
    IF r.exc = "Exception"
    THEN Apology[r.ret]
    ELSE r.ret

\* how EmailAgent() finds EMAIL_SENDER_ADDRESS when it is constructed
CtorOutcomes == {"sender", "no_sender"}

\* _handle_email, with _get_email_agent.  EmailAgent.__init__ only reads the
\* environment and has no call that fails, so _EMAIL_AGENT_ERROR stays None.
\* An exception of the routing completion, a routing document that is no
\* object and a query that is no str leave _handle_email as an exception.
HandleEmail(ctor, completion, fault) ==
    /\ pc = "handle"
    /\ turn.intent = "email"
    /\ LET construct == EMAIL_AGENT = None /\ EMAIL_AGENT_ERROR = None
           sender == IF ~construct THEN sender_address
                     ELSE IF ctor = "sender" THEN "<address>" ELSE None
       IN  /\ construct \/ ctor = "sender"
           /\ EMAIL_AGENT' = "<EmailAgent>"
           /\ sender_address' = sender
           /\ UNCHANGED EMAIL_AGENT_ERROR
    /\ IF ~completion.ok
       THEN /\ pc' = "raised"
            /\ turn' = [Called(turn, completion) EXCEPT
                                    !.handler = "email",
                                    !.completion = completion,
                                    !.pending_before = pending_draft]
            /\ UNCHANGED <<result, service, pending_draft, uuids, outbox,
                           failed_sends, draft_agent>>
       ELSE LET doc == _parse_email_command(completion.out)
            IN  IF doc = JsonOther
                   \/ ArgRaises(doc.val, "query")
                   \/ ArgRaises(doc.val, "instructions")
                THEN /\ pc' = "raised"
                     /\ turn' = [Called(turn, completion) EXCEPT
                                    !.handler = "email",
                                    !.completion = completion,
                                    !.pending_before = pending_draft]
                     /\ UNCHANGED <<result, service, pending_draft,
                                    uuids, outbox, failed_sends,
                                    draft_agent>>
                ELSE LET command == doc.val
                         r == Dispatch(command, fault)
                     IN  /\ r.uuids <= MaxDrafts
                         /\ service' = r.service
                         /\ pending_draft' = r.pending_draft
                         /\ uuids' = r.uuids
                         /\ outbox' = r.outbox
                         /\ failed_sends' =
                                IF r.exc # None /\ r.calls # <<>>
                                   /\ r.calls[Len(r.calls)] = "send"
                                THEN failed_sends \cup {pending_draft.id}
                                ELSE failed_sends
                         /\ draft_agent' =
                                IF r.pending_draft = NoDraft THEN None
                                ELSE IF r.pending_draft # pending_draft
                                THEN turn.agent_id
                                ELSE draft_agent
                         /\ turn' = [Called(turn, completion) EXCEPT
                                !.handler = "email",
                                !.completion = completion,
                                !.action =
                                    Get(command, "action", "summarize_inbox"),
                                !.confirmation =
                                    Get(command, "confirmation", None),
                                !.exc = r.exc,
                                !.calls = r.calls,
                                !.pending_before = pending_draft]
                         /\ result' = [reply |-> ReplyText(r),
                                       intent |-> "email",
                                       task |-> None, note |-> None]
                         /\ pc' = "persist"
    /\ UNCHANGED <<memory_managers, clsVars, memVars, bot>>

------------------------------------------------------------------------------
(* core/assistant.py: the action and conversation handlers *)

\* JSON objects the action completion may hold
ActionDicts ==
    { [reply |-> "ok", intent |-> "task", task |-> "<task>", note |-> None],
      [reply |-> "ok", intent |-> "note", task |-> None, note |-> "<note>"],
      [reply |-> "ok", intent |-> "draft_reply", task |-> None,
       note |-> None],
      [reply |-> "ok"],
      [reply |-> "ok", intent |-> "banana", task |-> None, note |-> None],
      [reply |-> "ok", intent |-> "question", task |-> "<task>",
       note |-> None],
      [reply |-> "ok", intent |-> "draft_reply", note |-> "<note>"],
      [reply |-> None, intent |-> None],
      [a \in {} |-> None] }

\* texts the action completion returns
ActionTexts ==
    {<<Json(d)>> : d \in ActionDicts}
    \cup { <<Fence, Json([reply |-> "ok", intent |-> "task",
                          task |-> "<task>", note |-> None]), Fence>>,
           <<Fence, Text>>, <<Text>>, <<JsonOther>>, <<>> }

\* texts the conversation completion returns
ConversationTexts == {"Sure.", "  "}

\* the mutation of _handle_action that lets JSONDecodeError escape
HandleAction_NoExcept(completion) ==
    /\ pc = "handle"
    /\ turn.intent \in {"task", "note", "draft_reply"}
    /\ turn' = [Called(turn, completion) EXCEPT !.handler = "action",
                            !.pending_before = pending_draft,
                            !.completion = completion]
    /\ IF ~completion.ok
       THEN /\ pc' = "raised"
            /\ UNCHANGED result
       ELSE LET raw == _strip_code_fences(completion.out)
                data == json_loads(raw)
            IN  IF data \in {JSONDecodeError, JsonOther}
                THEN /\ pc' = "raised"
                     /\ UNCHANGED result
                ELSE /\ result' =
                          [reply |-> Get(data.val, "reply", ""),
                           intent |-> Get(data.val, "intent", turn.intent),
                           task |-> Get(data.val, "task", None),
                           note |-> Get(data.val, "note", None)]
                     /\ pc' = "persist"
    /\ UNCHANGED <<mailVars, memory_managers, clsVars, memVars, bot>>

\* _handle_action
HandleAction(completion) ==
    /\ pc = "handle"
    /\ turn.intent \in {"task", "note", "draft_reply"}
    /\ turn' = [Called(turn, completion) EXCEPT !.handler = "action",
                            !.pending_before = pending_draft,
                            !.completion = completion]
    /\ IF ~completion.ok
       THEN /\ pc' = "raised"
            /\ UNCHANGED result
       ELSE LET raw == _strip_code_fences(completion.out)
                data == json_loads(raw)
            IN  IF data = JSONDecodeError
                THEN /\ result' = [reply |-> raw, intent |-> "other",
                                   task |-> None, note |-> None]
                     /\ pc' = "persist"
                ELSE IF data = JsonOther
                THEN /\ pc' = "raised"
                     /\ UNCHANGED result
                ELSE /\ result' =
                          [reply |-> Get(data.val, "reply", ""),
                           intent |-> Get(data.val, "intent", turn.intent),
                           task |-> Get(data.val, "task", None),
                           note |-> Get(data.val, "note", None)]
                     /\ pc' = "persist"
    /\ UNCHANGED <<mailVars, memory_managers, clsVars, memVars, bot>>

\* _handle_conversation
HandleConversation(completion) ==
    /\ pc = "handle"
    /\ turn.intent \notin {"email", "task", "note", "draft_reply"}
    /\ turn' = [Called(turn, completion) EXCEPT !.handler = "conversation",
                            !.pending_before = pending_draft]
    /\ IF ~completion.ok
       THEN /\ pc' = "raised"
            /\ UNCHANGED result
       ELSE /\ result' = [reply |-> StripStr(completion.out),
                          intent |-> turn.intent,
                          task |-> None, note |-> None]
            /\ pc' = "persist"
    /\ UNCHANGED <<mailVars, memory_managers, clsVars, memVars, bot>>

\* the mutation of the persistence step that does not test memory_manager
Persist_NoTest(store) ==
    /\ pc = "persist"
    /\ turn' = [turn EXCEPT !.persisted = store]
    /\ pc' = "returned"
    /\ UNCHANGED <<result, mailVars, memory_managers, clsVars, memVars, bot>>

\* the mutation of the persistence step that has no except clause
Persist_NoExcept(store) ==
    /\ pc = "persist"
    /\ turn' = [turn EXCEPT !.persisted =
                    IF turn.memory_manager = None THEN "skipped" ELSE store]
    /\ pc' = IF turn.memory_manager # None /\ store = "failed"
             THEN "raised" ELSE "returned"
    /\ UNCHANGED <<result, mailVars, memory_managers, clsVars, memVars, bot>>

\* the persistence step of handle_message and its return; a failure of
\* add_conversation or store_memory is swallowed
Persist(store) ==
    /\ pc = "persist"
    /\ turn' = [turn EXCEPT !.persisted =
                    IF turn.memory_manager = None THEN "skipped" ELSE store]
    /\ pc' = "returned"
    /\ UNCHANGED <<result, mailVars, memory_managers, clsVars, memVars, bot>>

------------------------------------------------------------------------------
(* The process: the bot front-end makes one handle_message call after     *)
(* another, and catches what a call raises                                *)

Next ==
    \/ \E user_text \in UserTexts, agent_id \in AgentIds,
          mem \in MemoryOutcomes :
          BeginTurn(user_text, agent_id, mem)
    \/ \E completion \in Completions(ClassifierTexts) :
          Classify(completion)
    \/ \E ctor \in CtorOutcomes, completion \in Completions(RoutingTexts),
          fault \in Faults :
          HandleEmail(ctor, completion, fault)
    \/ \E completion \in Completions(ActionTexts) :
          HandleAction(completion)
    \/ \E completion \in Completions(ConversationTexts) :
          HandleConversation(completion)
    \/ \E store \in {"stored", "failed"} :
          Persist(store)

Spec == Init /\ [][Next]_vars

------------------------------------------------------------------------------
(* One process in which handle_message is called under two agent ids, the *)
(* way its docstring proposes ("main_assistant", "email_agent")           *)

TwoAgentIds == {"main_assistant", "email_agent"}

\* the routing commands of these turns
AgentCommands ==
    { [action |-> "draft_reply", query |-> "bob",
       instructions |-> "be brief", confirmation |-> "needs_confirmation"],
      [action |-> "send_draft", confirmation |-> "send_now"],
      [action |-> "status"] }

NextAgents ==
    \/ \E user_text \in {<<"h","i">>, <<"e"," ","m","a","i","l">>},
          agent_id \in TwoAgentIds, mem \in MemoryOutcomes :
          BeginTurn(user_text, agent_id, mem)
    \/ \E text \in {<<"t","a","s","k">>, <<" ","e","m","a","i","l","\n">>,
                     <<>>} :
          Classify(Returned(text))
    \/ \E command \in AgentCommands, fault \in {"none", "send_http"} :
          HandleEmail("sender", Returned(<<Json(command)>>), fault)
    \/ HandleAction(Returned(<<Json([reply |-> "ok"])>>))
    \/ HandleConversation(Returned("Sure."))
    \/ Persist("stored")

SpecAgents == Init /\ [][NextAgents]_vars

------------------------------------------------------------------------------
(* The completion functions, request by request: a call is given the      *)
(* outcomes of the requests it may send, in order                         *)

\* how one chat.completions.create request ends: with a response, with an
\* exception, or with an exception whose text mentions "commit" or
\* "transaction"
RequestOutcomes == {"ok", "error", "session_error"}

\* the outcomes of the first and of a second request
Scripts == {<<a, b>> : a \in RequestOutcomes, b \in RequestOutcomes}

\* openai_client.chat_completion: one request, whose exception propagates
default_chat_completion(script, text) ==
    IF script[1] = "ok" THEN Returned(text)
    ELSE [ok |-> FALSE, errors |-> <<script[1]>>]

\* the mutation of MemoryManager.chat_completion that sends the request
\* again after any exception
chat_completion_RetryAny(script, text) ==
    IF script[1] = "ok" THEN Returned(text)
    ELSE IF script[2] = "ok"
         THEN [ok |-> TRUE, out |-> text, errors |-> <<script[1]>>]
         ELSE [ok |-> FALSE, errors |-> <<script[1], script[2]>>]

\* MemoryManager.chat_completion: an exception whose text mentions "commit"
\* or "transaction" makes it open a new session and send the request a
\* second time; any other exception, and what the second request raises,
\* propagates
chat_completion(script, text) ==
    IF script[1] = "ok" THEN Returned(text)
    ELSE IF script[1] = "session_error"
         THEN IF script[2] = "ok"
              THEN [ok |-> TRUE, out |-> text, errors |-> <<script[1]>>]
              ELSE [ok |-> FALSE, errors |-> <<script[1], script[2]>>]
    ELSE [ok |-> FALSE, errors |-> <<script[1]>>]

\* the completion call of the router: the manager's function if there is a
\* manager, else the default one
RouterCompletion(memory_manager, script, text) ==
    IF memory_manager # None THEN chat_completion(script, text)
    ELSE default_chat_completion(script, text)

NextRequests ==
    \/ \E user_text \in {<<"h","i">>, <<"e"," ","m","a","i","l">>},
          mem \in MemoryOutcomes :
          BeginTurn(user_text, "main_assistant", mem)
    \/ \E script \in Scripts,
          text \in {<<"t","a","s","k">>, <<" ","e","m","a","i","l","\n">>,
                    <<>>} :
          Classify(RouterCompletion(turn.memory_manager, script, text))
    \/ \E script \in Scripts, command \in AgentCommands, fault \in Faults :
          HandleEmail("sender",
                      RouterCompletion(turn.memory_manager, script,
                                       <<Json(command)>>),
                      fault)
    \/ \E script \in Scripts :
          HandleAction(RouterCompletion(turn.memory_manager, script,
                                        <<Json([reply |-> "ok"])>>))
    \/ \E script \in Scripts :
          HandleConversation(RouterCompletion(turn.memory_manager, script,
                                              "Sure."))
    \/ Persist("stored")

SpecRequests == Init /\ [][NextRequests]_vars

------------------------------------------------------------------------------
(* _classify_intent on its own, over many completions *)

InitClassify ==
    /\ pc = "idle"
    /\ turn = NoTurn
    /\ result = None
    /\ EMAIL_AGENT = None
    /\ EMAIL_AGENT_ERROR = None
    /\ sender_address = None
    /\ service = None
    /\ pending_draft = NoDraft
    /\ uuids = 0
    /\ outbox = <<>>
    /\ failed_sends = {}
    /\ draft_agent = None
    /\ memory_managers = {}
    /\ cls_in \in ClassifierInputs
    /\ cls_out = None
    /\ mem_in = NoMemoryRun
    /\ mem_out = NotCalled
    /\ bot = NoUpdates

RunClassifier ==
    /\ cls_out = None
    /\ cls_out' = ClassifyText(cls_in)
    /\ UNCHANGED <<pc, turn, result, mailVars, memory_managers, cls_in,
                   memVars, bot>>

NextClassify == RunClassifier

SpecClassify == InitClassify /\ [][NextClassify]_vars

------------------------------------------------------------------------------
(* core/memory.py: MemoryManager.build_memory_context *)

_STOPWORDS ==
    { <<"i">>, <<"m","e">>, <<"m","y">>, <<"y","o","u">>,
      <<"y","o","u","r">>, <<"t","h","e">>, <<"a","n","d">>,
      <<"b","u","t">>, <<"f","o","r">>, <<"a","r","e">>,
      <<"a","b","o","u","t">>, <<"t","h","a","t">>, <<"t","h","i","s">>,
      <<"w","i","t","h">>, <<"h","a","v","e">>, <<"w","h","a","t">>,
      <<"w","h","e","n">>, <<"w","h","o">>, <<"h","o","w">>,
      <<"w","h","y">>, <<"w","h","i","c","h">>,
      <<"f","a","v","o","r","i","t","e">>,
      <<"f","a","v","o","u","r","i","t","e">> }

\* the characters \w matches in the texts of this model
WordChars ==
    DOMAIN UpperToLower \cup {UpperToLower[c] : c \in DOMAIN UpperToLower}
    \cup {"0", "1", "2", "3", "4", "5", "6", "7", "8", "9", "_"}

RECURSIVE FindWords(_)
\* re.findall(r"\w+", s): the maximal runs of word characters, in order
FindWords(s) ==
    IF s = <<>> THEN <<>>
    ELSE IF s[1] \notin WordChars THEN FindWords(Tail(s))
    ELSE LET stops == {i \in 1..Len(s) : s[i] \notin WordChars}
             n == IF stops = {} THEN Len(s)
                  ELSE (CHOOSE i \in stops : \A j \in stops : i <= j) - 1
         IN  <<SubSeq(s, 1, n)>> \o FindWords(SubSeq(s, n + 1, Len(s)))

\* the keywords build_memory_context takes from the user message
Keywords(user_message) ==
    LET found == FindWords(Lower(user_message))
        tokens == {found[i] : i \in 1..Len(found)}
        keywords == {token \in tokens :
                        Len(token) > 2 /\ token \notin _STOPWORDS}
    IN  IF keywords = {} THEN tokens ELSE keywords

(* A str that may be long is its leading characters followed by `fill`     *)
(* more characters that are no word characters.                            *)
StrLen(s) == Len(s.text) + s.fill

\* s[:k]
Prefix(s, k) ==
    IF k <= Len(s.text)
    THEN [text |-> SubSeq(s.text, 1, k), fill |-> 0]
    ELSE [text |-> s.text, fill |-> IF k < StrLen(s) THEN k - Len(s.text)
                                    ELSE s.fill]

\* the content column of rows of memori_entity_fact
FactTexts ==
    { [text |-> <<"L","i","k","e","s"," ","T","e","a">>, fill |-> 0],
      [text |-> <<"h","a","s"," ","c","a","t">>, fill |-> 0],
      [text |-> <<"x">>, fill |-> 1490],
      [text |-> <<>>, fill |-> 0] }

\* MemoryManager._fetch_recent_facts: the newest `limit` rows, those with
\* empty content left out; [] without entity id or engine and when the
\* query raises
_fetch_recent_facts(self, limit) ==
    IF self.entity_id = None THEN <<>>
    ELSE IF self.engine = None THEN <<>>
    ELSE IF self.query = "raises" THEN <<>>
    ELSE LET n == IF Len(self.stored) < limit THEN Len(self.stored)
                  ELSE limit
             rows == SubSeq(self.stored, 1, n)
         IN  SelectSeq(rows, LAMBDA row : StrLen(row) > 0)

\* 100 times the score of facts[i]: one per keyword the fact holds, and the
\* recency bonus max(0.0, (len(facts) - idx) * 0.01) with idx = i - 1
Score(keywords, facts, i) ==
    LET lowered == Lower(facts[i].text)
        hits == Cardinality({kw \in keywords : Contains(lowered, kw)})
        bonus == Len(facts) - (i - 1)
    IN  100 * hits + (IF bonus > 0 THEN bonus ELSE 0)

\* scored.sort(key=score, reverse=True): descending, equal scores in order
SortByScore(keywords, facts) ==
    LET n == Len(facts)
        Before(i, j) ==
            \/ Score(keywords, facts, i) > Score(keywords, facts, j)
            \/ /\ Score(keywords, facts, i) = Score(keywords, facts, j)
               /\ i < j
        Rank(i) == 1 + Cardinality({j \in 1..n : Before(j, i)})
    IN  [r \in 1..n |-> CHOOSE i \in 1..n : Rank(i) = r]

\* seq[:k]
Take(seq, k) == SubSeq(seq, 1, IF Len(seq) < k THEN Len(seq) ELSE k)

Header ==
    [text |-> <<"R","e","l","e","v","a","n","t"," ",
                "m","e","m","o","r","i","e","s",":">>,
     fill |-> 0]

\* f"- {fact}"
Line(fact) == [text |-> <<"-", " ">> \o fact.text, fill |-> fact.fill]

\* "\n".join(lines)[:limit], as the lines that are left
JoinAndCut(lines, limit) ==
    LET off[i \in 1..Len(lines)] ==
            IF i = 1 THEN 0 ELSE off[i - 1] + StrLen(lines[i - 1]) + 1
        left == {i \in 1..Len(lines) : i = 1 \/ off[i] <= limit}
    IN  [i \in 1..Cardinality(left) |-> Prefix(lines[i], limit - off[i])]

\* the mutation of build_memory_context that builds the context without
\* looking whether there are facts
build_memory_context_NoEmptyCheck(self, user_message) ==
    LET facts == _fetch_recent_facts(self, 25)
        keywords == Keywords(user_message)
        order == SortByScore(keywords, facts)
        scored == [r \in 1..Len(facts) |-> facts[order[r]]]
        relevant == Take(scored, 5)
    IN  JoinAndCut(<<Header>> \o [i \in 1..Len(relevant) |->
                                     Line(relevant[i])], 1500)

\* MemoryManager.build_memory_context; the empty str is the empty sequence
\* of lines.  _fetch_recent_facts catches what its query raises, so the
\* except clause around it has nothing to catch.
build_memory_context(self, user_message) ==
    IF user_message = <<>> \/ self.entity_id = None THEN <<>>
    ELSE LET facts == _fetch_recent_facts(self, 25)
         IN  IF facts = <<>> THEN <<>>
             ELSE LET keywords == Keywords(user_message)
                      order == SortByScore(keywords, facts)
                      positive == SelectSeq(order, LAMBDA i :
                                      Score(keywords, facts, i) > 0)
                      scored == [r \in 1..Len(positive) |->
                                    facts[positive[r]]]
                      relevant == IF Take(scored, 5) # <<>>
                                  THEN Take(scored, 5)
                                  ELSE Take(facts, 3)
                  IN  IF relevant = <<>> THEN <<>>
                      ELSE JoinAndCut(
                               <<Header>> \o [i \in 1..Len(relevant) |->
                                                 Line(relevant[i])],
                               1500)

\* user messages of the stand-alone runs
MemoryMessages ==
    { <<>>,
      <<"T","e","a","?">>,
      <<"m","y"," ","d","o","g">>,
      <<"I">> }

RECURSIVE FactLists(_)
\* the lists of at most n stored facts, newest first
FactLists(n) ==
    IF n = 0 THEN {<<>>}
    ELSE LET shorter == FactLists(n - 1)
         IN  shorter \cup {Append(l, f) : l \in shorter, f \in FactTexts}

\* the manager of a stand-alone run: with or without entity id and engine,
\* its query working or raising
MemoryRuns ==
    { [user_message |-> m, entity_id |-> e[1], engine |-> e[2],
       query |-> e[3], stored |-> l] :
         m \in MemoryMessages,
         e \in { <<"<1>", "<engine>", "rows">>,
                 <<None, "<engine>", "rows">>,
                 <<"<1>", None, "rows">>,
                 <<"<1>", "<engine>", "raises">> },
         l \in FactLists(MaxFacts) }

InitMemory ==
    /\ pc = "idle"
    /\ turn = NoTurn
    /\ result = None
    /\ EMAIL_AGENT = None
    /\ EMAIL_AGENT_ERROR = None
    /\ sender_address = None
    /\ service = None
    /\ pending_draft = NoDraft
    /\ uuids = 0
    /\ outbox = <<>>
    /\ failed_sends = {}
    /\ draft_agent = None
    /\ memory_managers = {}
    /\ cls_in = <<>>
    /\ cls_out = None
    /\ mem_in \in MemoryRuns
    /\ mem_out = NotCalled
    /\ bot = NoUpdates

RunMemory ==
    /\ ~mem_out.called
    /\ mem_out' = [called |-> TRUE,
                   ret |-> build_memory_context(mem_in, mem_in.user_message)]
    /\ UNCHANGED <<pc, turn, result, mailVars, memory_managers, clsVars,
                   mem_in, bot>>

NextMemory == RunMemory

SpecMemory == InitMemory /\ [][NextMemory]_vars

------------------------------------------------------------------------------
(* interfaces/telegram.py: the bot front-end.  handle_message is one step  *)
(* of a worker here; what it returns or raises is the step's outcome.      *)

coreVars == <<pc, turn, result, mailVars, memory_managers, clsVars, memVars>>

\* update.message.text of the text messages the bot receives
UpdateTexts == { <<"h","i">>, <<" "," ">>, <<>> }

\* how a handle_message call ends: with a reply, with an empty reply, or
\* with an exception
CallOutcomes == {"ok", "", "<exc>"}

\* how a call of the bot's transport (send_chat_action, reply_text) ends
SendOutcomes == {"ok", "raises"}

\* run_polling puts a text message into the update queue
ReceiveUpdate(text) ==
    /\ bot.received < MaxUpdates
    /\ bot' = [bot EXCEPT
           !.received = @ + 1,
           !.update_queue = Append(@, [id |-> bot.received + 1,
                                       text |-> text])]
    /\ UNCHANGED coreVars

\* the mutation of the application that is built with concurrent updates:
\* it starts the handler of an update while another handler is running
ProcessUpdate_Concurrent(chat_action) ==
    /\ bot.update_queue # <<>>
    /\ LET update == Head(bot.update_queue)
       IN  IF update.text = <<>> \/ Strip(update.text) = <<>>
           THEN /\ chat_action = "ok"
                /\ bot' = [bot EXCEPT
                    !.update_queue = Tail(@),
                    !.sent = Append(@, [update |-> update.id,
                        text |-> "Please send me a message with some text."])]
           ELSE IF chat_action = "raises"
           THEN bot' = [bot EXCEPT !.update_queue = Tail(@)]
           ELSE bot' = [bot EXCEPT
                    !.update_queue = Tail(@),
                    !.handlers = @ \cup {update.id},
                    !.workers = @ \cup {update.id}]
    /\ UNCHANGED coreVars

\* The application takes the next update and runs handle_user_message up
\* to its await of run_in_executor.  The application is built without
\* concurrent_updates and the handler is registered blocking, so an update
\* is taken only when no handler is running.  send_chat_action is awaited
\* before the try statement: when it raises, the handler ends there, with
\* no call of handle_message and no reply.  bot.sent lists the reply_text
\* calls the handlers have made.
ProcessUpdate(chat_action) ==
    /\ bot.update_queue # <<>>
    /\ bot.handlers = {}
    /\ LET update == Head(bot.update_queue)
       IN  IF update.text = <<>> \/ Strip(update.text) = <<>>
           THEN /\ chat_action = "ok"
                /\ bot' = [bot EXCEPT
                    !.update_queue = Tail(@),
                    !.sent = Append(@, [update |-> update.id,
                        text |-> "Please send me a message with some text."])]
           ELSE IF chat_action = "raises"
           THEN bot' = [bot EXCEPT !.update_queue = Tail(@)]
           ELSE bot' = [bot EXCEPT
                    !.update_queue = Tail(@),
                    !.handlers = @ \cup {update.id},
                    !.workers = @ \cup {update.id}]
    /\ UNCHANGED coreVars

\* handle_message ends on its executor thread
FinishCall(id, outcome) ==
    /\ id \in bot.workers
    /\ bot' = [bot EXCEPT
           !.workers = @ \ {id},
           !.finished = @ \cup {[update |-> id, outcome |-> outcome]}]
    /\ UNCHANGED coreVars

\* the text handle_user_message sends for an outcome of handle_message
BotReply(outcome) ==
    IF outcome = "<exc>"
    THEN "Sorry, I encountered an error processing your message. Please try again."
    ELSE IF outcome = ""
    THEN "I received your message, but I don't have a response right now."
    ELSE outcome

\* handle_user_message after its await: the reply, or the apology of its
\* except clause.  The reply_text of the reply is inside the try statement,
\* so when it raises the except clause sends the apology as well.
SendReply(id, sending) ==
    /\ id \in bot.handlers
    /\ \E call \in bot.finished :
          /\ call.update = id
          /\ LET reply == [update |-> id, text |-> BotReply(call.outcome)]
                 apology == [update |-> id, text |-> BotReply("<exc>")]
             IN  IF call.outcome # "<exc>" /\ sending = "raises"
                 THEN bot' = [bot EXCEPT
                          !.handlers = @ \ {id},
                          !.sent = Append(Append(@, reply), apology)]
                 ELSE /\ sending = "ok"
                      /\ bot' = [bot EXCEPT
                             !.handlers = @ \ {id},
                             !.sent = Append(@, reply)]
    /\ UNCHANGED coreVars

NextBot ==
    \/ \E text \in UpdateTexts : ReceiveUpdate(text)
    \/ \E chat_action \in SendOutcomes : ProcessUpdate(chat_action)
    \/ \E id \in 1..MaxUpdates, outcome \in CallOutcomes :
          FinishCall(id, outcome)
    \/ \E id \in 1..MaxUpdates, sending \in SendOutcomes :
          SendReply(id, sending)

SpecBot == Init /\ [][NextBot]_vars

------------------------------------------------------------------------------
(* Properties *)

\* handle_message has returned its Result
HasReturned == pc = "returned"

\* the email handler ran the command it parsed, and _handle_email is over
EmailActed(action) ==
    /\ pc \in {"persist", "returned"}
    /\ turn.handler = "email"
    /\ turn.action = action

OutboxIds(box) == {box[i].id : i \in 1..Len(box)}

(* C1: whenever handle_message returns, the Result has exactly the fields  *)
(* reply, intent, task and note, and its intent is one of the six labels.  *)
C1_ResultShape ==
    HasReturned =>
        /\ DOMAIN result = {"reply", "intent", "task", "note"}
        /\ result.intent \in {"task", "note", "draft_reply", "question",
                              "other", "email"}

(* C2: in every Result returned, an intent other than task and note comes  *)
(* with task and note both null.                                           *)
C2_NullUnlessTaskOrNote ==
    HasReturned =>
        (result.intent \notin {"task", "note"}
            => result.task = None /\ result.note = None)

\* some mail keyword occurs in the text, letter case ignored on both sides
MentionsMail(text) ==
    \E kw \in _EMAIL_KEYWORDS :
        \E i \in 0..(Len(text) - Len(kw)) :
            \A j \in 1..Len(kw) : LowerChar(text[i + j]) = LowerChar(kw[j])

(* C3: a text holding a mail keyword, in any letter case, is handled by    *)
(* the email handler and the Result's intent is email, whatever the        *)
(* classifier answered.                                                    *)
C3_KeywordRoutesToEmail ==
    MentionsMail(turn.user_text) =>
        /\ turn.handler # None => turn.handler = "email"
        /\ HasReturned => result.intent = "email"

C3_Witness ==
    /\ HasReturned
    /\ turn.user_text = <<"m","y"," ","I","N","B","O","X">>
    /\ turn.overridden
    /\ turn.handler = "email"
    /\ result.intent = "email"

\* the first whitespace-delimited token of s, or <<>> when s has none
FirstToken(s) ==
    LET solid == {i \in 1..Len(s) : s[i] \notin Whitespace}
    IN  IF solid = {} THEN <<>>
        ELSE LET lo == CHOOSE i \in solid : \A j \in solid : i <= j
                 hi == CHOOSE i \in lo..Len(s) :
                          /\ \A j \in lo..i : j \in solid
                          /\ i = Len(s) \/ (i + 1) \notin solid
             IN  [k \in 1..(hi - lo + 1) |-> s[lo + k - 1]]

(* C4: _classify_intent answers the first whitespace-delimited token of    *)
(* the completion, lower-cased, when that is one of the six labels, and    *)
(* other for every other completion, the empty and the blank one included. *)
C4_FirstTokenOrOther ==
    cls_out # None =>
        LET tok == [k \in 1..Len(FirstToken(cls_in)) |->
                        LowerChar(FirstToken(cls_in)[k])]
        IN  IF \E l \in allowed : IntentChars[l] = tok
            THEN IntentChars[cls_out] = tok
            ELSE cls_out = "other"

C4_Witness ==
    /\ cls_in = <<"T","a","s","k"," ","n","o","t","e">>
    /\ cls_out = "task"

(* C5: with a draft pending, a send_draft command whose confirmation is    *)
(* not send_now sends nothing to the provider, leaves the pending draft    *)
(* as it was and replies with the request for confirmation.                *)
C5_UnconfirmedSendKeepsDraft ==
    (/\ EmailActed("send_draft")
     /\ turn.pending_before # NoDraft
     /\ turn.confirmation # "send_now")
    =>  /\ turn.calls = <<>>
        /\ pending_draft = turn.pending_before
        /\ pending_draft # NoDraft
        /\ result.reply =
              "I have the draft ready. Say 'yes, send it' when you're sure."

C5_Witness ==
    /\ HasReturned
    /\ EmailActed("send_draft")
    /\ turn.confirmation = "needs_confirmation"
    /\ turn.pending_before # NoDraft
    /\ pending_draft = turn.pending_before
    /\ outbox = <<>>

\* send_pending_draft ran on a pending draft
SendRan ==
    /\ EmailActed("send_draft")
    /\ turn.pending_before # NoDraft
    /\ turn.confirmation = "send_now"

\* a draft_reply has just succeeded
DraftSucceeded ==
    /\ EmailActed("draft_reply")
    /\ turn.exc = None

C6_Cleared == (SendRan /\ turn.exc = None) => pending_draft = NoDraft

C6_StaysClear ==
    (pending_draft = NoDraft /\ pending_draft' # NoDraft) => DraftSucceeded'

(* C6: when send_pending_draft completes on a pending draft without an     *)
(* error, the slot is empty, and it stays empty until a draft_reply        *)
(* succeeds.                                                               *)
C6_SendClearsSlot == []C6_Cleared /\ [][C6_StaysClear]_vars

C6_Witness ==
    /\ HasReturned
    /\ SendRan
    /\ turn.exc = None
    /\ pending_draft = NoDraft
    /\ Len(outbox) = 1

\* the provider's send call was issued and failed
SendFailed ==
    /\ SendRan
    /\ turn.exc # None
    /\ turn.calls # <<>>
    /\ turn.calls[Len(turn.calls)] = "send"

(* C7: when the provider's send call fails, the pending draft stays in the *)
(* slot unchanged, nothing is added to what the provider took, the failure *)
(* is the reply text, and what a later send hands over is that draft's     *)
(* payload.                                                                *)
C7_FailedSendKeepsDraft ==
    /\ SendFailed =>
          /\ pending_draft = turn.pending_before
          /\ pending_draft.id \notin OutboxIds(outbox)
          /\ pending_draft.id \in failed_sends
          /\ result.intent = "email"
          /\ result.reply \in {"Failed to send the email: send",
                               Apology["send failed"]}
    /\ \A i \in 1..Len(outbox) : outbox[i].raw = outbox[i].id

C7_Witness ==
    /\ HasReturned
    /\ SendRan
    /\ turn.exc = None
    /\ turn.pending_before.id \in failed_sends
    /\ outbox = <<[id |-> turn.pending_before.id,
                   raw |-> turn.pending_before.raw]>>

(* C8: a send_draft command that finds no draft pending makes no provider  *)
(* call, leaves the slot empty, and returns the reply "There's no draft    *)
(* waiting to send." with intent email, whatever the confirmation.         *)
C8_NothingToSend ==
    (EmailActed("send_draft") /\ turn.pending_before = NoDraft)
    =>  /\ turn.calls = <<>>
        /\ pending_draft = NoDraft
        /\ result.reply = "There's no draft waiting to send."
        /\ result.intent = "email"
        /\ result.task = None /\ result.note = None

C8_Witness ==
    /\ HasReturned
    /\ EmailActed("send_draft")
    /\ turn.confirmation = "send_now"
    /\ turn.pending_before = NoDraft
    /\ result.reply = "There's no draft waiting to send."

C9_HoldsNewDraft ==
    DraftSucceeded =>
        /\ pending_draft # NoDraft
        /\ pending_draft.id = uuids
        /\ pending_draft.id # turn.pending_before.id
        /\ pending_draft.id \notin OutboxIds(outbox)

\* the drafts that were built and are neither pending nor sent
Discarded(slot, box, n) == {d \in 1..n : d # slot.id /\ d \notin OutboxIds(box)}

C9_DiscardedStaysUnsent ==
    \A d \in Discarded(pending_draft, outbox, uuids) :
        d \in Discarded(pending_draft', outbox', uuids')

(* C9: a successful draft_reply leaves the slot holding the draft it has   *)
(* just built, from idle and from draft_pending alike; a draft replaced    *)
(* before it was sent is never pending again and never sent.               *)
C9_DraftReplaces == []C9_HoldsNewDraft /\ [][C9_DiscardedStaysUnsent]_vars

C9_Witness ==
    /\ HasReturned
    /\ DraftSucceeded
    /\ turn.pending_before # NoDraft
    /\ pending_draft.id = 2
    /\ Discarded(pending_draft, outbox, uuids) = {1}

(* C10: summarize_inbox, summarize_thread and status leave the pending     *)
(* draft slot as it was, whether they succeed or fail.                     *)
C10_ReadOnlyActions ==
    (/\ pc \in {"persist", "returned"}
     /\ turn.handler = "email"
     /\ turn.action \in {"summarize_inbox", "summarize_thread", "status"})
    => pending_draft = turn.pending_before

C10_Witness ==
    /\ HasReturned
    /\ EmailActed("summarize_thread")
    /\ turn.exc = "EmailAgentError"
    /\ turn.pending_before # NoDraft
    /\ pending_draft = turn.pending_before

\* the draft the n-th successful draft_reply created
DraftOf(n) ==
    [id |-> n, raw |-> n, preview |-> n, subject |-> "<subject>"]

(* C11: the slot holds one value, no draft or one draft; a draft in the     *)
(* slot is the one the most recent successful draft_reply created, and the *)
(* provider has taken neither it nor any later draft.                      *)
C11_OnePendingDraft ==
    /\ pending_draft \in {NoDraft} \cup {DraftOf(n) : n \in 1..uuids}
    /\ pending_draft # NoDraft =>
          /\ pending_draft = DraftOf(uuids)
          /\ \A i \in 1..Len(outbox) : outbox[i].id < pending_draft.id

C11_Witness ==
    /\ HasReturned
    /\ DraftSucceeded
    /\ pending_draft = DraftOf(2)
    /\ outbox = <<[id |-> 1, raw |-> 1]>>

\* _handle_action was given a completion that json.loads rejects once the
\* code fences are stripped
Unparseable ==
    /\ turn.handler = "action"
    /\ turn.completion.ok
    /\ json_loads(_strip_code_fences(turn.completion.out)) = JSONDecodeError

FetchedFacts == _fetch_recent_facts(mem_in, 25)

\* no fetched fact holds a keyword of the user message
NoKeywordHit ==
    \A i \in 1..Len(FetchedFacts) :
        \A kw \in Keywords(mem_in.user_message) :
            ~Contains(Lower(FetchedFacts[i].text), kw)

(* C13: when the fetched fact list is not empty and no fact holds a        *)
(* keyword of the message, build_memory_context returns the header and the *)
(* 3 most recent facts (all of them if there are fewer), cut at 1500       *)
(* characters.                                                             *)
C13_ThreeMostRecent ==
    (/\ mem_out.called
     /\ mem_in.user_message # <<>>
     /\ FetchedFacts # <<>>
     /\ NoKeywordHit)
    => mem_out.ret =
           JoinAndCut(<<Header>> \o
                      [i \in 1..Len(Take(FetchedFacts, 3)) |->
                          Line(FetchedFacts[i])], 1500)

\* the stand-alone run was given nothing to build a context from: no
\* message, no entity id, no engine, a failing query, or no fact with content
NothingToBuildFrom ==
    \/ mem_in.user_message = <<>>
    \/ mem_in.entity_id = None
    \/ mem_in.engine = None
    \/ mem_in.query = "raises"
    \/ \A i \in 1..Len(mem_in.stored) : StrLen(mem_in.stored[i]) = 0

(* C14: build_memory_context returns a str from every run, and the empty   *)
(* str when the fetch fails, when there are no facts and when the manager  *)
(* has no entity id.                                                       *)
C14_EmptyContextOnFailure ==
    mem_out.called =>
        /\ DOMAIN mem_out = {"called", "ret"}
        /\ NothingToBuildFrom => mem_out.ret = <<>>

C14_Witness ==
    /\ mem_out.called
    /\ mem_in.user_message # <<>>
    /\ mem_in.entity_id # None
    /\ mem_in.query = "raises"
    /\ Len(mem_in.stored) = MaxFacts
    /\ mem_out.ret = <<>>

\* get_memory_manager failed in this turn
MemoryFailed == pc # "idle" /\ turn.memory_manager = None

\* the call a turn without memory makes, when its one request succeeds
NoMemoryCall ==
    [fn |-> "default_chat_completion", context |-> FALSE,
     requests |-> 1, errors |-> <<>>]

C15_NoMemoryInTurn ==
    MemoryFailed =>
        /\ turn.memory_context = None
        /\ \A i \in 1..Len(turn.llm_calls) :
              /\ turn.llm_calls[i].fn = NoMemoryCall.fn
              /\ turn.llm_calls[i].context = NoMemoryCall.context
        /\ pc # "classify" => Len(turn.llm_calls) >= 1
        /\ pc \in {"persist", "returned"} =>
              /\ turn.handler # None
              /\ Len(turn.llm_calls) = 2
        /\ pc = "returned" => turn.persisted = "skipped"

C15_ReturnsHandlerResult ==
    (MemoryFailed /\ pc = "persist") => (pc' = "returned" /\ result' = result)

(* C15: in a turn in which the memory manager could not be built, the      *)
(* classification and the handler run, every completion call of the router *)
(* is the default one with no Context message, no add_conversation or      *)
(* store_memory call is made, and handle_message returns the Result the    *)
(* handler produced.                                                       *)
C15_MemoryFailureDegrades ==
    []C15_NoMemoryInTurn /\ [][C15_ReturnsHandlerResult]_vars

C15_Witness ==
    /\ HasReturned
    /\ turn.memory_manager = None
    /\ turn.handler = "conversation"
    /\ turn.llm_calls = <<NoMemoryCall, NoMemoryCall>>
    /\ turn.persisted = "skipped"
    /\ result.reply = "Sure."

\* add_conversation or store_memory raised in this turn
PersistFailed == turn.persisted = "failed"

C16_StillReturns ==
    PersistFailed =>
        /\ pc = "returned"
        /\ DOMAIN result = {"reply", "intent", "task", "note"}

C16_ResultUnchanged ==
    (pc = "persist" /\ PersistFailed') => result' = result

(* C16: when add_conversation or store_memory raises, handle_message does  *)
(* not raise and returns the Result the handler produced, unchanged.       *)
C16_PersistFailureSwallowed ==
    []C16_StillReturns /\ [][C16_ResultUnchanged]_vars

C16_Witness ==
    /\ HasReturned
    /\ PersistFailed
    /\ turn.handler = "action"
    /\ result = [reply |-> "ok", intent |-> "task", task |-> "<task>",
                 note |-> None]

\* what the sub-agent or the handler says about a failed provider call
ProviderErrors ==
    { "Gmail error: list", "Gmail error: get",
      "Gmail error while searching: list",
      "Gmail error while searching: get",
      "Failed to send the email: send",
      Apology["auth failed"], Apology["list failed"],
      Apology["get failed"], Apology["send failed"] }

\* the call of the mail provider issued last in this email turn raised
ProviderFailed ==
    /\ turn.handler = "email"
    /\ turn.exc # None
    /\ turn.calls # <<>>
    /\ turn.exc = "EmailAgentError" =>
          result.reply \notin
              { "EMAIL_SENDER_ADDRESS is not set in your environment.",
                "I couldn't locate that thread. Try a different keyword or sender.",
                "I couldn't find a matching conversation in your inbox." }
    /\ turn.exc = "Exception" =>
          result.reply # Apology["completion failed"]

(* C17: when a call of the mail provider (authentication, list, get,       *)
(* thread get, send) fails in an email turn, _handle_email does not raise: *)
(* it returns intent email, task and note null, and as reply the           *)
(* sub-agent's description of the error or the handler's apology with the  *)
(* error in it.                                                            *)
C17_ProviderFailureIsAReply ==
    (turn.handler = "email" /\ turn.exc # None) =>
        /\ pc \in {"persist", "returned"}
        /\ result.intent = "email"
        /\ result.task = None
        /\ result.note = None
        /\ ProviderFailed => result.reply \in ProviderErrors

C17_Witness ==
    /\ HasReturned
    /\ EmailActed("summarize_thread")
    /\ ProviderFailed
    /\ turn.calls = <<"auth", "list", "get">>
    /\ turn.exc = "Exception"
    /\ result.reply = Apology["get failed"]

(* C18: no handle_message call ends by raising: whatever step fails inside *)
(* the turn (a completion call of the classification, the routing or a     *)
(* handler, the memory, the mail provider), the call returns a Result.     *)
C18_NeverRaises == pc # "raised"

\* the email handler runs under an agent id other than the one whose turn
\* stored the pending draft
ForeignDraft ==
    /\ pc = "handle"
    /\ turn.intent = "email"
    /\ pending_draft # NoDraft
    /\ draft_agent # turn.agent_id

C19_Step ==
    ForeignDraft =>
        /\ pending_draft' = pending_draft
        /\ outbox' = outbox
        /\ turn'.action = "status" =>
              result'.reply = "No drafts are pending approval right now."

(* C19: a turn under one agent id does not see, send or overwrite the      *)
(* pending draft that a turn under another agent id stored.                *)
C19_DraftsPerAgent == [][C19_Step]_vars

\* the replies that answer a handle_message call
CallReplies == {BotReply(outcome) : outcome \in CallOutcomes}

(* C20: every handle_message call of the bot front-end runs on a worker    *)
(* while its handler waits, a reply to a message is sent only after the    *)
(* call for that message has finished, and no two calls are in progress    *)
(* at the same time.                                                       *)
C20_OneCallAtATime ==
    /\ bot.workers \subseteq bot.handlers
    /\ Cardinality(bot.workers) <= 1
    /\ \A i \in 1..Len(bot.sent) :
          bot.sent[i].text \in CallReplies =>
              /\ bot.sent[i].update \notin bot.workers
              /\ \E call \in bot.finished :
                    /\ call.update = bot.sent[i].update
                    /\ bot.sent[i].text \in {BotReply(call.outcome),
                                            BotReply("<exc>")}

C20_Witness ==
    /\ bot.workers = {2}
    /\ bot.handlers = {2}
    /\ Len(bot.update_queue) = 1
    /\ bot.sent = <<[update |-> 1, text |-> "ok"]>>

\* no call of the mail provider is issued twice in the turn
NoProviderCallTwice ==
    \A i, j \in 1..Len(turn.calls) : i # j => turn.calls[i] # turn.calls[j]

(* C21 as stated: in every turn each completion call of the router sends   *)
(* at most one request, and no call of the mail provider is issued twice.  *)
C21_NoRetry ==
    /\ \A i \in 1..Len(turn.llm_calls) : turn.llm_calls[i].requests <= 1
    /\ NoProviderCallTwice

(* C21: no call of the mail provider is issued twice in a turn, and the    *)
(* default completion function sends one request per call.  The manager's  *)
(* chat_completion sends a second request only after an exception whose    *)
(* text mentions a commit or a transaction, never a third, and lets every  *)
(* other exception through after one request.                              *)
C21_RetryOnlyAfterSessionError ==
    /\ \A i \in 1..Len(turn.llm_calls) :
          LET call == turn.llm_calls[i]
          IN  /\ call.requests \in {1, 2}
              /\ call.fn = "default_chat_completion" => call.requests = 1
              /\ call.requests = 2 => call.errors[1] = "session_error"
              /\ (call.errors # <<>> /\ call.errors[1] = "error")
                     => call.requests = 1
    /\ NoProviderCallTwice

C21_Witness ==
    /\ HasReturned
    /\ turn.handler = "conversation"
    /\ turn.llm_calls[2] = [fn |-> "memory_manager.chat_completion",
                            context |-> TRUE, requests |-> 2,
                            errors |-> <<"session_error">>]
    /\ result.reply = "Sure."

\* json.loads rejects what the routing completion returned, once its code
\* fences are stripped
RoutingUnparseable ==
    /\ turn.handler = "email"
    /\ turn.completion.ok
    /\ json_loads(_strip_code_fences(turn.completion.out)) = JSONDecodeError

SendIssued == \E i \in 1..Len(turn.calls) : turn.calls[i] = "send"

C23_OnlyConfirmedSends ==
    /\ SendIssued =>
          /\ turn.handler = "email"
          /\ turn.action = "send_draft"
          /\ turn.confirmation = "send_now"
          /\ turn.pending_before # NoDraft
    /\ \A i, j \in 1..Len(outbox) : outbox[i].id = outbox[j].id => i = j
    /\ \A i \in 1..Len(outbox) : outbox[i].raw = DraftOf(outbox[i].id).raw

C23_SendsNewestDraft ==
    outbox' # outbox =>
        /\ pending_draft = DraftOf(uuids)
        /\ outbox' = Append(outbox, [id |-> pending_draft.id,
                                     raw |-> pending_draft.raw])
        /\ SendIssued'

(* C23: the provider's send call is issued only in a turn whose command is *)
(* send_draft with confirmation send_now while a draft is pending; what    *)
(* the provider takes is the raw payload of the most recent successful     *)
(* draft_reply; and the provider takes no draft's payload twice.           *)
C23_SendOnlyConfirmedOnce ==
    []C23_OnlyConfirmedSends /\ [][C23_SendsNewestDraft]_vars

C23_Witness ==
    /\ HasReturned
    /\ SendRan
    /\ turn.exc = None
    /\ outbox = <<[id |-> 1, raw |-> 1], [id |-> 2, raw |-> 2]>>

\* the draft_reply command of this turn failed: in the handler, for want of
\* a query, or in EmailAgent.draft_reply
DraftFailed ==
    /\ EmailActed("draft_reply")
    /\ turn.exc # None

(* C24: a draft_reply that fails leaves the slot as it was before the      *)
(* turn: no draft stays no draft, and a draft that was pending is still    *)
(* pending and has not been handed to the provider.                        *)
C24_FailedDraftKeepsSlot ==
    DraftFailed =>
        /\ pending_draft = turn.pending_before
        /\ pending_draft # NoDraft =>
              /\ pending_draft = DraftOf(uuids)
              /\ pending_draft.id \notin OutboxIds(outbox)

C24_Witness ==
    /\ HasReturned
    /\ DraftFailed
    /\ turn.exc = "Exception"
    /\ result.reply = Apology["completion failed"]
    /\ turn.pending_before = DraftOf(1)
    /\ pending_draft = DraftOf(1)

\* the handler of update id is over
Handled(id) ==
    /\ id \in 1..bot.received
    /\ \A i \in 1..Len(bot.update_queue) : bot.update_queue[i].id # id
    /\ id \notin bot.handlers

\* the places of bot.sent that hold the reply_text calls made for update id
RepliesTo(id) == {i \in 1..Len(bot.sent) : bot.sent[i].update = id}

\* update.message.text is empty or whitespace only
BlankText(text) == text = <<>> \/ Strip(text) = <<>>

(* C25 as stated: every text message whose handler is over was answered by *)
(* exactly one reply_text call: with the reply, the fallback or the apology *)
(* that the outcome of its handle_message call selects, or with the fixed  *)
(* prompt when handle_message was not called; and the handler of a blank   *)
(* text sends the prompt without starting a handle_message call.           *)
C25_ExactlyOneReply ==
    /\ [](\A id \in 1..MaxUpdates :
            Handled(id) =>
               /\ Cardinality(RepliesTo(id)) = 1
               /\ \A i \in RepliesTo(id) :
                     IF \E call \in bot.finished : call.update = id
                     THEN \E call \in bot.finished :
                             /\ call.update = id
                             /\ bot.sent[i].text = BotReply(call.outcome)
                     ELSE bot.sent[i].text =
                             "Please send me a message with some text.")
    /\ [][(/\ bot.update_queue # <<>>
           /\ bot'.update_queue = Tail(bot.update_queue)
           /\ BlankText(Head(bot.update_queue).text))
          => /\ bot'.workers = bot.workers
             /\ bot'.sent = Append(bot.sent,
                   [update |-> Head(bot.update_queue).id,
                    text |-> "Please send me a message with some text."])]_vars

====
